---- MODULE Spec2Model ----
(***************************************************************************)
(* Model of the metered gateway in src/index.js: one Lambda handler that   *)
(* verifies a Google access token, reads the caller's account from the     *)
(* DynamoDB table UserAccountData, forwards the body to the OpenAI chat     *)
(* completions endpoint, writes a record to the table TransactionData and  *)
(* decrements the caller's Balance.                                         *)
(*                                                                         *)
(* Several invocations of the handler run concurrently; each one is a      *)
(* chain of awaits, and each await is one step of the model.               *)
(*                                                                         *)
(* Money is counted in units of 1e-8 USD, so that every rate of the        *)
(* pricing table and the fixed surcharge 0.00000213 USD are integers. The  *)
(* model computes prices exactly; the rounding of IEEE doubles is not      *)
(* modelled.                                                               *)
(***************************************************************************)
EXTENDS Integers, Sequences, FiniteSets, TLC

\* ---------------------------------------------------------------- bounds
MaxNow == 1        \* Date.now() ranges over 0..MaxNow (milliseconds)
MaxTokens == 3     \* token counts 0..MaxTokens, plus the sample counts below

\* The concurrent invocations of the handler.
Calls == {"c1", "c2"}

\* ------------------------------------------------------------- JS values
Undefined == [k |-> "undefined"]
NaN == [k |-> "NaN"]
Num(n) == [k |-> "num", v |-> n]
Str(s) == [k |-> "str", v |-> s]
None == [k |-> "none"]

\* x * y in JavaScript, for x a number or undefined and y a number.
JsMul(x, y) == IF x.k = "num" /\ y.k = "num" THEN Num(x.v * y.v) ELSE NaN

\* x + y in JavaScript, for numbers and NaN.
JsAdd(x, y) == IF x.k = "num" /\ y.k = "num" THEN Num(x.v + y.v) ELSE NaN

\* ------------------------------------------------------------- constants
CLIENT_ID == "client-id"

\* The fixed surcharge 0.00000213 USD, in units of 1e-8 USD.
Surcharge == 213

\* The pricing table. A rate is USD per 1000 tokens, written in units of
\* 1e-5 USD: (tokens / 1000) * rate is then tokens * rate units of 1e-8 USD.
modelPrice ==
    [ m \in {"gpt-4", "gpt-4o", "gpt-4o-mini", "gpt-4-turbo", "gpt-3.5-turbo"} |->
        CASE m = "gpt-4"         -> [input |-> 3000, output |-> 6000]
          [] m = "gpt-4o"        -> [input |-> 250, c_input |-> 125, output |-> 1000]
          [] m = "gpt-4o-mini"   -> [input |-> 15, c_input |-> 7500, output |-> 60]
          [] m = "gpt-4-turbo"   -> [input |-> 1000, output |-> 3000]
          [] m = "gpt-3.5-turbo" -> [input |-> 150, output |-> 200] ]

\* ----------------------------------------------------- upstream responses
ModelNames == {"gpt-4", "gpt-4o", "gpt-4o-mini", "gpt-4-turbo", "gpt-3.5-turbo",
               "unknown-model"}

TokenCounts == (0..MaxTokens) \cup {50, 100, 500, 1000}

TokenValues == {Num(n) : n \in TokenCounts} \cup {Undefined}

Usage(p, c) == [k |-> "object", prompt_tokens |-> p, completion_tokens |-> c]

UsageValues == {Usage(p, c) : p \in TokenValues, c \in TokenValues} \cup {Undefined}

\* Every response the price is computed for in the specification PriceSpec.
AllResponses ==
    [model : {Str(m) : m \in ModelNames} \cup {Undefined}, usage : UsageValues]

\* response?.usage?.prompt_tokens
PromptTokens(response) ==
    IF response.usage.k = "object" THEN response.usage.prompt_tokens ELSE Undefined

\* response?.usage?.completion_tokens
CompletionTokens(response) ==
    IF response.usage.k = "object" THEN response.usage.completion_tokens ELSE Undefined

\* modelPrice[response?.model]: the key of an absent model is "undefined".
PriceEntry(response) ==
    LET key == IF response.model.k = "str" THEN response.model.v ELSE "undefined"
    IN  IF key \in DOMAIN modelPrice THEN modelPrice[key] ELSE Undefined

InputPrice_swapped(response) ==
    LET e == PriceEntry(response)
    IN  IF e = Undefined THEN 0 ELSE e.output

\* modelPrice[response?.model]?.input || 0
InputPrice(response) ==
    LET e == PriceEntry(response)
    IN  IF e = Undefined \/ e.input = 0 THEN 0 ELSE e.input

\* modelPrice[response?.model]?.output || 0
OutputPrice(response) ==
    LET e == PriceEntry(response)
    IN  IF e = Undefined \/ e.output = 0 THEN 0 ELSE e.output

getTransactionPrice(response) ==
    LET promptPrice == JsMul(PromptTokens(response), Num(InputPrice(response)))
        completionPrice == JsMul(CompletionTokens(response), Num(OutputPrice(response)))
    IN  JsAdd(JsAdd(promptPrice, completionPrice), Num(Surcharge))

\* ------------------------------------------------------------- JSON text
\* An upstream body is its text form and, when the text is well-formed JSON,
\* the value it denotes. "pretty" is JSON with insignificant white space (line
\* breaks, indentation); "compact" is the form JSON.stringify produces.
ResponseValues ==
    [model : {Str("gpt-4"), Str("unknown-model")},
     usage : {Undefined, Usage(Num(100), Num(50))}]

RawBodies ==
    [fmt : {"compact", "pretty"}, val : ResponseValues] \cup {[fmt |-> "malformed"]}

JSONparses(data) == data.fmt # "malformed"

JSONparse(data) == data.val

JSONstringify(value) == [fmt |-> "compact", val |-> value]

\* ------------------------------------------------------ requests, tokens
Subjects == {"alice", "bob"}

Tokens == {"tok-alice", "tok-bob", "tok-carol", "tok-foreign", "tok-expired"}

\* The value of event.headers.authorization: absent, or a string given by
\* the parts split(' ') cuts it into.
Header(parts) == [k |-> "str", parts |-> parts]

Headers ==
    {Undefined, Header(<<"Bearer">>), Header(<<"tok-alice">>),
     Header(<<"Basic", "tok-alice">>)}
    \cup {Header(<<"Bearer", t>>) : t \in Tokens}

\* event.body: the payload as a string, or no body at all
Bodies == {Str("payload"), Undefined}

\* event.headers.authorization.split(' ')[1]
SplitSecond(authorization) ==
    IF Len(authorization.parts) >= 2 THEN Str(authorization.parts[2]) ELSE Undefined

\* What the identity provider answers for an access token: the token's
\* metadata, or nothing for a token it does not accept.
TokenInfo(accessToken) ==
    IF accessToken.k # "str" THEN None
    ELSE CASE accessToken.v = "tok-alice"   -> [k |-> "info", aud |-> CLIENT_ID, email |-> "alice"]
           [] accessToken.v = "tok-bob"     -> [k |-> "info", aud |-> CLIENT_ID, email |-> "bob"]
           [] accessToken.v = "tok-carol"   -> [k |-> "info", aud |-> CLIENT_ID, email |-> "carol"]
           [] accessToken.v = "tok-foreign" -> [k |-> "info", aud |-> "other-client", email |-> "alice"]
           [] OTHER                         -> None

\* ------------------------------------------------------- handler results
returnHTTP(statusCode, message, error) ==
    [statusCode |-> statusCode,
     body |-> JSONstringify([message |-> message, error |-> error])]

\* The catch block of the handler.
CatchResult(errMessage) ==
    [statusCode |-> 401,
     body |-> JSONstringify([message |-> "Token is invalid", error |-> errMessage])]

AudienceMatches_always(idToken) == TRUE

\* idToken.aud !== CLIENT_ID, negated
AudienceMatches(idToken) == idToken.aud = CLIENT_ID

\* !dbUser.Item, negated
HasItem(dbUserResult) == dbUserResult.k = "item"

InsufficientBalance_orzero(dbUserResult) == dbUserResult.Balance <= 0

\* dbUser.Item.Balance < 0
InsufficientBalance(dbUserResult) == dbUserResult.Balance < 0

\* ----------------------------------------------------------------- state
VARIABLES
    now,            \* Date.now()
    accounts,       \* table UserAccountData: UserID -> [Balance]
    transactions,   \* table TransactionData: TransactionID -> item
    pc,             \* per call: the await the handler is suspended at
    authorization,  \* per call: event.headers.authorization
    eventBody,      \* per call: event.body
    startTime,      \* per call: startTime
    endTime,        \* per call: endTime
    accessToken,    \* per call: accessToken
    idToken,        \* per call: idToken
    dbUser,         \* per call: what getDBUser resolved to
    upstreamData,   \* per call: the body the upstream exchange ended with
    response,       \* per call: response
    transactionID,  \* per call: the TransactionID logTransaction made
    transactionPrice, \* per call: transactionPrice
    newBalance,     \* per call: result.Attributes.Balance of the update
    result,         \* per call: what the handler returned
    ops,            \* per call: the external operations issued and how each ended
    upstreamOutcome, \* per call: how the upstream exchange ended
    accounts0,      \* the accounts table before any call
    priceIn,        \* PriceSpec: the response given to getTransactionPrice
    priceOut        \* PriceSpec: what it returned

callVars == <<authorization, eventBody, startTime, endTime, accessToken, idToken, dbUser, upstreamData,
              response, transactionID, transactionPrice, newBalance, result,
              upstreamOutcome>>

vars == <<now, accounts, transactions, pc, callVars, ops, accounts0, priceIn, priceOut>>

InitBalances == {-213, 0, 1000000}

BobBalance == 1000000

Init ==
    /\ now = 0
    /\ \E b \in InitBalances :
         accounts = [s \in Subjects |-> [Balance |-> IF s = "alice" THEN b ELSE BobBalance]]
    /\ accounts0 = accounts
    /\ transactions = << >>
    /\ pc = [c \in Calls |-> "idle"]
    /\ authorization = [c \in Calls |-> None]
    /\ eventBody = [c \in Calls |-> None]
    /\ startTime = [c \in Calls |-> 0]
    /\ endTime = [c \in Calls |-> None]
    /\ accessToken = [c \in Calls |-> None]
    /\ idToken = [c \in Calls |-> None]
    /\ dbUser = [c \in Calls |-> None]
    /\ upstreamData = [c \in Calls |-> None]
    /\ response = [c \in Calls |-> None]
    /\ transactionID = [c \in Calls |-> None]
    /\ transactionPrice = [c \in Calls |-> None]
    /\ newBalance = [c \in Calls |-> None]
    /\ result = [c \in Calls |-> None]
    /\ ops = [c \in Calls |-> << >>]
    /\ upstreamOutcome = [c \in Calls |-> "none"]
    /\ priceIn = None
    /\ priceOut = None

\* --------------------------------------------------------------- helpers
Op(name) == [op |-> name, end |-> "issued"]
Ok(name) == [op |-> name, end |-> "ok"]
Err(name) == [op |-> name, end |-> "error"]

\* The handler of call c returns r.
Return(c, r) ==
    /\ pc' = [pc EXCEPT ![c] = "done"]
    /\ result' = [result EXCEPT ![c] = r]

\* dynamoDB.get on UserAccountData
GetItem(userId) ==
    IF userId \in DOMAIN accounts
    THEN [k |-> "item", Balance |-> accounts[userId].Balance]
    ELSE [k |-> "noitem"]

\* 'txn-' + Date.now()
MakeTransactionID(t) == Str(<<"txn-", t>>)

\* The item logTransaction puts: Duration is (endTime - startTime) / 1000 of
\* line 39, kept in milliseconds; the identifier is made from the clock read
\* of line 101.
TransactionItem(c, resp, id) ==
    [TransactionID |-> id,
     UserID |-> idToken[c].email,
     Model |-> resp.model,
     ReqTokens |-> PromptTokens(resp),
     ResTokens |-> CompletionTokens(resp),
     Duration |-> endTime[c] - startTime[c]]

\* dynamoDB.put on TransactionData: the item replaces any item of the same key.
PutItem(table, item) ==
    [id \in DOMAIN table \cup {item.TransactionID} |->
        IF id = item.TransactionID THEN item ELSE table[id]]

UpdatedBalance_rmw(c, userId, amount) == dbUser[c].Balance - amount

UpdatedBalance_plus(c, userId, amount) == accounts[userId].Balance + amount

\* UpdateExpression 'set Balance = Balance - :amount', evaluated by the store
\* on the stored item.
UpdatedBalance(c, userId, amount) == accounts[userId].Balance - amount

UpdateAccepted_ifcovered(userId, amount) ==
    /\ userId \in DOMAIN accounts
    /\ amount.k = "num"
    /\ accounts[userId].Balance >= amount.v

\* The store takes the update: the item exists and :amount is a number
\* (DynamoDB has no NaN; the request is refused with a validation error).
UpdateAccepted(userId, amount) == userId \in DOMAIN accounts /\ amount.k = "num"

\* --------------------------------------------------------------- actions
\* Lines 13-18: the handler starts, reads the header and asks the identity
\* provider about the token.
Invoke(c) ==
    /\ pc[c] = "idle"
    /\ \E h \in Headers, b \in Bodies :
        /\ authorization' = [authorization EXCEPT ![c] = h]
        /\ eventBody' = [eventBody EXCEPT ![c] = b]
        /\ startTime' = [startTime EXCEPT ![c] = now]
        /\ IF h = Undefined
           THEN \* undefined.split: a TypeError, caught at line 50
                /\ Return(c, CatchResult("TypeError"))
                /\ UNCHANGED <<accessToken, ops>>
           ELSE /\ accessToken' = [accessToken EXCEPT ![c] = SplitSecond(h)]
                /\ pc' = [pc EXCEPT ![c] = "getTokenInfo"]
                /\ ops' = [ops EXCEPT ![c] = Append(@, Op("getTokenInfo"))]
                /\ UNCHANGED result
    /\ UNCHANGED <<now, accounts, transactions, endTime, idToken, dbUser, upstreamData, response,
                   transactionID, transactionPrice, newBalance, accounts0, priceIn, priceOut,
                   upstreamOutcome>>

\* Lines 18-25: getTokenInfo settles; the audience is checked and the account
\* is asked for.
TokenInfoDone(c) ==
    /\ pc[c] = "getTokenInfo"
    /\ \E answered \in BOOLEAN :
        LET info == TokenInfo(accessToken[c]) IN
        IF ~answered \/ info = None
        THEN /\ Return(c, CatchResult("getTokenInfo failed"))
             /\ ops' = [ops EXCEPT ![c] = Append(@, Err("getTokenInfo"))]
             /\ UNCHANGED idToken
        ELSE /\ idToken' = [idToken EXCEPT ![c] = info]
             /\ IF ~AudienceMatches(info)
                THEN /\ Return(c, returnHTTP(401, "Access token is not intended for this client", ""))
                     /\ ops' = [ops EXCEPT ![c] = Append(@, Ok("getTokenInfo"))]
                ELSE /\ pc' = [pc EXCEPT ![c] = "getDBUser"]
                     /\ ops' = [ops EXCEPT ![c] = @ \o <<Ok("getTokenInfo"), Op("get")>>]
                     /\ UNCHANGED result
    /\ UNCHANGED <<now, accounts, transactions, authorization, eventBody, startTime, endTime,
                   accessToken, dbUser,
                   upstreamData, response, transactionID, transactionPrice, newBalance,
                   accounts0, priceIn, priceOut,
                   upstreamOutcome>>

NoUserResult_402 == returnHTTP(402, "User does not exist", "")

\* Line 27
NoUserResult == returnHTTP(401, "User does not exist", "")

\* Line 29
InsufficientResult == returnHTTP(402, "User has insufficient balance", "")

\* Line 92: req.write(body) throws a TypeError when body is not a string (or a
\* Buffer); nothing has been written to the connection.
WriteThrows(body) == body.k # "str"

\* Lines 25-31 and 62-93: getDBUser settles; the account and its balance are
\* checked and the upstream request is written, which rejects at once when the
\* body cannot be written.
GetUserDone(c) ==
    /\ pc[c] = "getDBUser"
    /\ \E answered \in BOOLEAN :
        LET got == GetItem(idToken[c].email) IN
        IF ~answered
        THEN /\ Return(c, CatchResult("get failed"))
             /\ ops' = [ops EXCEPT ![c] = Append(@, Err("get"))]
             /\ UNCHANGED dbUser
        ELSE /\ dbUser' = [dbUser EXCEPT ![c] = got]
             /\ IF ~HasItem(got)
                THEN /\ Return(c, NoUserResult)
                     /\ ops' = [ops EXCEPT ![c] = Append(@, Ok("get"))]
                ELSE IF InsufficientBalance(got)
                THEN /\ Return(c, InsufficientResult)
                     /\ ops' = [ops EXCEPT ![c] = Append(@, Ok("get"))]
                ELSE IF WriteThrows(eventBody[c])
                THEN /\ Return(c, CatchResult("The chunk argument must be of type string"))
                     /\ ops' = [ops EXCEPT ![c] = Append(@, Ok("get"))]
                ELSE /\ pc' = [pc EXCEPT ![c] = "makeOpenAIRequest"]
                     /\ ops' = [ops EXCEPT ![c] = @ \o <<Ok("get"), Op("request")>>]
                     /\ UNCHANGED result
    /\ UNCHANGED <<now, accounts, transactions, authorization, eventBody, startTime, endTime,
                   accessToken, idToken,
                   upstreamData, response, transactionID, transactionPrice, newBalance,
                   accounts0, priceIn, priceOut,
                   upstreamOutcome>>

UpstreamStatus == {200, 201, 299, 300, 404, 500}

\* What the upstream answered with: a 2xx status or another one.
StatusClass(statusCode) == IF statusCode \in 200..299 THEN "2xx" ELSE "non-2xx"

IsSuccessStatus_any(statusCode) == TRUE

\* res.statusCode >= 200 && res.statusCode < 300
IsSuccessStatus(statusCode) == statusCode >= 200 /\ statusCode < 300

\* Lines 31-41 and 62-109: the upstream exchange ends, with a connection error
\* or with a status and a body; on a 2xx status the body is parsed, endTime is
\* read from the clock (line 33), the clock is read again for the identifier
\* (line 101), at the same millisecond or a later one, and the put is sent.
UpstreamDone(c) ==
    /\ pc[c] = "makeOpenAIRequest"
    /\ \/ \* req.on('error')
          /\ upstreamOutcome' = [upstreamOutcome EXCEPT ![c] = "transport-error"]
          /\ Return(c, CatchResult("Request failed"))
          /\ ops' = [ops EXCEPT ![c] = Append(@, Err("request"))]
          /\ UNCHANGED <<now, upstreamData, response, endTime, transactionID>>
       \/ \E statusCode \in UpstreamStatus, data \in RawBodies :
            /\ upstreamOutcome' = [upstreamOutcome EXCEPT ![c] = StatusClass(statusCode)]
            /\ IF ~IsSuccessStatus(statusCode)
               THEN /\ Return(c, CatchResult("Request failed with status code"))
                    /\ ops' = [ops EXCEPT ![c] = Append(@, Err("request"))]
                    /\ UNCHANGED <<now, upstreamData, response, endTime, transactionID>>
               ELSE /\ upstreamData' = [upstreamData EXCEPT ![c] = data]
                    /\ IF ~JSONparses(data)
                       THEN \* JSON.parse throws inside the 'end' listener: the
                            \* promise is never settled and the exception is
                            \* uncaught.
                            /\ pc' = [pc EXCEPT ![c] = "crashed"]
                            /\ ops' = [ops EXCEPT ![c] = Append(@, Err("request"))]
                            /\ UNCHANGED <<now, result, response, endTime, transactionID>>
                       ELSE /\ response' = [response EXCEPT ![c] = JSONparse(data)]
                            /\ endTime' = [endTime EXCEPT ![c] = now]
                            /\ \E later \in now..MaxNow :
                                 /\ now' = later
                                 /\ transactionID' =
                                      [transactionID EXCEPT ![c] = MakeTransactionID(later)]
                            /\ pc' = [pc EXCEPT ![c] = "logTransaction"]
                            /\ ops' = [ops EXCEPT ![c] = @ \o <<Ok("request"), Op("put")>>]
                            /\ UNCHANGED result
    /\ UNCHANGED <<accounts, transactions, authorization, eventBody, startTime,
                   accessToken, idToken,
                   dbUser, transactionPrice, newBalance, accounts0, priceIn, priceOut>>

LogThrows_never(stored) == FALSE

\* Line 109: the awaited put rejects when the store did not take the item, and
\* logTransaction lets the rejection through to the handler's catch.
LogThrows(stored) == ~stored

\* Lines 41-44 and 109-137: the put settles; the price is computed and the
\* update of the balance is sent.
LogDone(c) ==
    /\ pc[c] = "logTransaction"
    /\ \E stored \in BOOLEAN :
        IF LogThrows(stored)
        THEN /\ Return(c, CatchResult("put failed"))
             /\ ops' = [ops EXCEPT ![c] = Append(@, Err("put"))]
             /\ UNCHANGED <<transactions, transactionPrice>>
        ELSE /\ transactions' =
                    IF stored
                    THEN PutItem(transactions,
                                 TransactionItem(c, response[c], transactionID[c]))
                    ELSE transactions
             /\ transactionPrice' =
                    [transactionPrice EXCEPT ![c] = getTransactionPrice(response[c])]
             /\ pc' = [pc EXCEPT ![c] = "deductUserBalance"]
             /\ ops' = [ops EXCEPT ![c] =
                            @ \o <<IF stored THEN Ok("put") ELSE Err("put"), Op("update")>>]
             /\ UNCHANGED result
    /\ UNCHANGED <<now, accounts, authorization, eventBody, startTime, endTime, accessToken, idToken, dbUser,
                   upstreamData, response, transactionID, newBalance, accounts0,
                   priceIn, priceOut,
                   upstreamOutcome>>

DeductRethrows_swallowed(failed) == FALSE

\* Lines 140-143: the catch of deductUserBalance logs the error and throws it
\* again.
DeductRethrows(failed) == failed

\* Lines 46-49
SuccessResult(c) == [statusCode |-> 200, body |-> JSONstringify(response[c])]

\* Lines 44-49 and 136-143: the update settles; on success the handler returns
\* the response.
DeductDone(c) ==
    /\ pc[c] = "deductUserBalance"
    /\ \E applied \in BOOLEAN :
        LET userId == idToken[c].email
            amount == transactionPrice[c]
            failed == ~applied \/ ~UpdateAccepted(userId, amount)
        IN
        IF DeductRethrows(failed)
        THEN /\ Return(c, CatchResult("update failed"))
             /\ ops' = [ops EXCEPT ![c] = Append(@, Err("update"))]
             /\ UNCHANGED <<accounts, newBalance>>
        ELSE /\ accounts' =
                    IF failed THEN accounts
                    ELSE [accounts EXCEPT ![userId].Balance = UpdatedBalance(c, userId, amount.v)]
             /\ newBalance' =
                    IF failed THEN newBalance
                    ELSE [newBalance EXCEPT ![c] = Num(UpdatedBalance(c, userId, amount.v))]
             /\ Return(c, SuccessResult(c))
             /\ ops' = [ops EXCEPT ![c] = Append(@, IF failed THEN Err("update") ELSE Ok("update"))]
    /\ UNCHANGED <<now, transactions, authorization, eventBody, startTime, endTime, accessToken, idToken, dbUser,
                   upstreamData, response, transactionID, transactionPrice, accounts0,
                   priceIn, priceOut,
                   upstreamOutcome>>

\* A millisecond passes.
Tick ==
    /\ now < MaxNow
    /\ now' = now + 1
    /\ UNCHANGED <<accounts, transactions, pc, callVars, ops, accounts0, priceIn, priceOut>>

Next ==
    \/ \E c \in Calls : Invoke(c)
    \/ \E c \in Calls : TokenInfoDone(c)
    \/ \E c \in Calls : GetUserDone(c)
    \/ \E c \in Calls : UpstreamDone(c)
    \/ \E c \in Calls : LogDone(c)
    \/ \E c \in Calls : DeductDone(c)
    \/ Tick

Spec == Init /\ [][Next]_vars

\* --------------------------------------------- the price function, alone
PriceInit ==
    /\ now = 0
    /\ accounts = [s \in Subjects |-> [Balance |-> 0]]
    /\ accounts0 = accounts
    /\ transactions = << >>
    /\ pc = [c \in Calls |-> "idle"]
    /\ authorization = [c \in Calls |-> None]
    /\ eventBody = [c \in Calls |-> None]
    /\ startTime = [c \in Calls |-> 0]
    /\ endTime = [c \in Calls |-> None]
    /\ accessToken = [c \in Calls |-> None]
    /\ idToken = [c \in Calls |-> None]
    /\ dbUser = [c \in Calls |-> None]
    /\ upstreamData = [c \in Calls |-> None]
    /\ response = [c \in Calls |-> None]
    /\ transactionID = [c \in Calls |-> None]
    /\ transactionPrice = [c \in Calls |-> None]
    /\ newBalance = [c \in Calls |-> None]
    /\ result = [c \in Calls |-> None]
    /\ ops = [c \in Calls |-> << >>]
    /\ upstreamOutcome = [c \in Calls |-> "none"]
    /\ priceIn \in AllResponses
    /\ priceOut = None

ComputePrice ==
    /\ priceOut = None
    /\ priceOut' = getTransactionPrice(priceIn)
    /\ UNCHANGED <<now, accounts, transactions, pc, callVars, ops, accounts0, priceIn>>

PriceNext == ComputePrice

PriceSpec == PriceInit /\ [][PriceNext]_vars

\* ------------------------------------------------------------ properties
\* Operation e is in the record of call c.
Has(c, e) == \E i \in DOMAIN ops[c] : ops[c][i] = e

\* How many times e is in the record of call c.
Count(c, e) == Cardinality({i \in DOMAIN ops[c] : ops[c][i] = e})

\* The first place of e in the record of call c (0 when absent).
FirstAt(c, e) ==
    IF Has(c, e) THEN CHOOSE i \in DOMAIN ops[c] :
                          /\ ops[c][i] = e
                          /\ \A j \in DOMAIN ops[c] : ops[c][j] = e => i <= j
    ELSE 0

\* Call c sent nothing upstream, wrote no transaction record and deducted
\* nothing.
NoSideEffects(c) ==
    /\ ~Has(c, Op("request"))
    /\ ~Has(c, Op("put"))
    /\ ~Has(c, Op("update"))

Returned(c) == pc[c] = "done"

Authenticated(c) == idToken[c] # None /\ idToken[c].aud = CLIENT_ID

\* C1: a call whose verified token has an audience other than the configured
\* client id returns 401, and it reads no account, sends nothing upstream,
\* writes no transaction record and deducts nothing.
C1_AudienceMismatchRejected ==
    \A c \in Calls :
        (idToken[c] # None /\ idToken[c].aud # CLIENT_ID) =>
            /\ Returned(c)
            /\ result[c].statusCode = 401
            /\ ~Has(c, Op("get"))
            /\ NoSideEffects(c)

C1_Witness ==
    \E c \in Calls :
        /\ idToken[c] # None
        /\ idToken[c].aud # CLIENT_ID
        /\ Returned(c)
        /\ result[c].statusCode = 401

\* C2: an authenticated call whose subject has no item in UserAccountData
\* sends nothing upstream, writes no transaction record and deducts nothing,
\* and the status it returns is 401.
C2_NoAccountRejected ==
    \A c \in Calls :
        (Authenticated(c) /\ idToken[c].email \notin DOMAIN accounts) =>
            /\ NoSideEffects(c)
            /\ Returned(c) => result[c].statusCode = 401
            /\ Has(c, Ok("get")) => Returned(c) /\ dbUser[c] = [k |-> "noitem"]

C2_Witness ==
    \E c \in Calls :
        /\ Authenticated(c)
        /\ idToken[c].email \notin DOMAIN accounts
        /\ dbUser[c] = [k |-> "noitem"]
        /\ Returned(c)
        /\ result[c].statusCode = 401

\* C3: an authenticated call that reads a balance below 0 returns 402 and
\* sends nothing upstream, writes no record and deducts nothing; a call that
\* reads a balance of 0 or more is admitted: it is not refused with 402 and
\* its request body is written upstream (a body that cannot be written ends
\* the call in the catch-all 401, with nothing sent).
C3_BalanceGate ==
    \A c \in Calls :
        dbUser[c].k = "item" =>
            /\ dbUser[c].Balance < 0 =>
                  /\ Returned(c)
                  /\ result[c].statusCode = 402
                  /\ NoSideEffects(c)
            /\ dbUser[c].Balance >= 0 =>
                  /\ result[c] # InsufficientResult
                  /\ ~WriteThrows(eventBody[c]) => Has(c, Op("request"))
                  /\ WriteThrows(eventBody[c]) =>
                        /\ Returned(c)
                        /\ result[c].statusCode = 401
                        /\ NoSideEffects(c)

C3_Witness ==
    /\ \E c \in Calls :
        /\ dbUser[c].k = "item"
        /\ dbUser[c].Balance < 0
        /\ result[c].statusCode = 402
    /\ \E c \in Calls :
        /\ dbUser[c].k = "item"
        /\ dbUser[c].Balance = 0
        /\ Has(c, Op("request"))

Ended(c) == pc[c] \in {"done", "crashed"}

Succeeded(c) == Returned(c) /\ result[c].statusCode = 200

\* The subjects' calls whose deduction the store applied.
Deducted(s) == {c \in Calls : Has(c, Ok("update")) /\ idToken[c].email = s}

RECURSIVE SumPrices(_)
SumPrices(S) ==
    IF S = {} THEN 0
    ELSE LET c == CHOOSE x \in S : TRUE
         IN  transactionPrice[c].v + SumPrices(S \ {c})

\* C4, as claimed: every admitted call that has ended wrote exactly one
\* transaction record and attempted exactly one deduction, the write
\* completing before the deduction was attempted.
C4_EveryAdmissionLoggedAndBilled ==
    \A c \in Calls :
        (Has(c, Op("request")) /\ Ended(c)) =>
            /\ Count(c, Ok("put")) = 1
            /\ Count(c, Op("update")) = 1
            /\ FirstAt(c, Ok("put")) < FirstAt(c, Op("update"))

\* C4, amended: a call whose upstream invocation succeeded attempts exactly one
\* record write; when that write succeeds exactly one deduction is attempted,
\* after the write completed, whether or not the deduction then fails; no
\* deduction is attempted without a completed write, and no call writes or
\* deducts twice.
C4_LoggedBeforeBilled ==
    \A c \in Calls :
        /\ Count(c, Op("put")) <= 1
        /\ Count(c, Op("update")) <= 1
        /\ Has(c, Ok("request")) => Count(c, Op("put")) = 1
        /\ Has(c, Op("put")) => Has(c, Ok("request"))
        /\ Has(c, Ok("put")) =>
              /\ Count(c, Ok("put")) = 1
              /\ Count(c, Op("update")) = 1
              /\ FirstAt(c, Ok("put")) < FirstAt(c, Op("update"))
        /\ Has(c, Op("update")) => Has(c, Ok("put"))

C4_Witness ==
    \E c \in Calls :
        /\ Has(c, Ok("put"))
        /\ Has(c, Err("update"))
        /\ Returned(c)
        /\ transactionPrice[c].k = "num"

\* C5: whatever the interleaving, each subject's balance is its first balance
\* minus the sum of the amounts of the deductions the store applied for it.
C5_NoLostUpdate ==
    \A s \in DOMAIN accounts :
        accounts[s].Balance = accounts0[s].Balance - SumPrices(Deducted(s))

C5_Witness ==
    \E c1, c2 \in Calls :
        /\ c1 # c2
        /\ Has(c1, Ok("update"))
        /\ Has(c2, Ok("update"))
        /\ idToken[c1].email = idToken[c2].email
        /\ dbUser[c1].Balance = dbUser[c2].Balance
        /\ accounts[idToken[c1].email].Balance =
              dbUser[c1].Balance - transactionPrice[c1].v - transactionPrice[c2].v

\* C6: of two calls billed for one subject, the one billed first left a
\* balance of 0 or more (otherwise the other, run after it, would have been
\* refused with 402 and never billed).
C6_NoOverdraftFromRace ==
    \A c1, c2 \in Calls :
        (/\ c1 # c2
         /\ Has(c1, Ok("update"))
         /\ Has(c2, Ok("update"))
         /\ idToken[c1].email = idToken[c2].email) =>
            (newBalance[c1].v >= 0 \/ newBalance[c2].v >= 0)

\* The pricing table as the specification gives it, in USD per 1000 tokens
\* and units of 1e-5 USD: <<input rate, output rate>>, both 0 for a model that
\* is not in the table.
ClaimedRates(model) ==
    IF model.k # "str" THEN <<0, 0>>
    ELSE CASE model.v = "gpt-4"         -> <<3000, 6000>>
           [] model.v = "gpt-4o"        -> <<250, 1000>>
           [] model.v = "gpt-4o-mini"   -> <<15, 60>>
           [] model.v = "gpt-4-turbo"   -> <<1000, 3000>>
           [] model.v = "gpt-3.5-turbo" -> <<150, 200>>
           [] OTHER                     -> <<0, 0>>

\* (prompt_tokens/1000)*inputRate + (completion_tokens/1000)*outputRate
\* + 0.00000213, in units of 1e-8 USD.
ClaimedPrice(model, prompt, completion) ==
    prompt * ClaimedRates(model)[1] + completion * ClaimedRates(model)[2] + 213

HasTokenCounts(resp) ==
    /\ resp.usage.k = "object"
    /\ resp.usage.prompt_tokens.k = "num"
    /\ resp.usage.completion_tokens.k = "num"

\* C7: a call that returns 200 returns the upstream body unmodified,
\* has written exactly one record and has had its price deducted exactly once;
\* no call returns 200 after a failed log write or a failed deduction.
C7_VerbatimBody ==
    \A c \in Calls :
        /\ Succeeded(c) =>
              /\ result[c].body = upstreamData[c]
              /\ Count(c, Ok("put")) = 1
              /\ Count(c, Ok("update")) = 1
        /\ (Has(c, Err("put")) \/ Has(c, Err("update"))) => ~Succeeded(c)

\* C8: for every model and every pair of token counts getTransactionPrice
\* returns (prompt/1000)*inputRate + (completion/1000)*outputRate + 0.00000213
\* with the rates of the pricing table, both 0 for a model not in the table:
\* 0.09000213 for gpt-4 with 1000/1000 tokens, 0.00000213 for an unknown model.
C8_PriceFormula ==
    (priceOut # None /\ HasTokenCounts(priceIn)) =>
        /\ priceOut = Num(ClaimedPrice(priceIn.model,
                                       priceIn.usage.prompt_tokens.v,
                                       priceIn.usage.completion_tokens.v))
        /\ (priceIn.model = Str("gpt-4")
              /\ priceIn.usage = Usage(Num(1000), Num(1000))) => priceOut = Num(9000213)
        /\ priceIn.model \notin {Str(m) : m \in DOMAIN modelPrice} => priceOut = Num(213)

C8_Witness ==
    /\ priceIn = [model |-> Str("gpt-4"), usage |-> Usage(Num(1000), Num(1000))]
    /\ priceOut = Num(9000213)

\* C9: a response with no usage block is priced at the fixed surcharge alone,
\* whatever its model, and the surcharge is an amount the store takes as the
\* decrement of the balance.
C9_MissingUsageIsSurcharge ==
    \A c \in Calls :
        (/\ response[c] # None
         /\ response[c].usage = Undefined
         /\ transactionPrice[c] # None) =>
            /\ transactionPrice[c] = Num(Surcharge)
            /\ UpdateAccepted(idToken[c].email, transactionPrice[c])

\* C10: every call that has ended without a 200 has returned a result with
\* status 401 or 402 and a body with a message and an error field; the status
\* is 402 exactly when the account was read with a balance below 0.
C10_FailureResult ==
    \A c \in Calls :
        (Ended(c) /\ ~Succeeded(c)) =>
            /\ result[c] # None
            /\ result[c].statusCode \in {401, 402}
            /\ DOMAIN JSONparse(result[c].body) = {"message", "error"}
            /\ result[c].statusCode = 402 <=>
                  (dbUser[c].k = "item" /\ dbUser[c].Balance < 0)

\* The header has the form 'Bearer <token>'.
BearerForm(h) == h.k = "str" /\ Len(h.parts) = 2 /\ h.parts[1] = "Bearer"

\* C11: a call whose authorization header is missing, has no Bearer scheme
\* before the token or has no token is answered like a call with an invalid
\* token, with 401 'Token is invalid', and it reads no account, sends nothing
\* upstream, writes no record and deducts nothing.
C11_MalformedHeaderRejected ==
    \A c \in Calls :
        (authorization[c] # None /\ ~BearerForm(authorization[c])) =>
            /\ ~Has(c, Op("get"))
            /\ NoSideEffects(c)
            /\ Returned(c) =>
                  /\ result[c].statusCode = 401
                  /\ JSONparse(result[c].body).message = "Token is invalid"

\* One step of the handler of call c.
CallStep(c) ==
    \/ Invoke(c)
    \/ TokenInfoDone(c)
    \/ GetUserDone(c)
    \/ UpstreamDone(c)
    \/ LogDone(c)
    \/ DeductDone(c)

\* C12: no call is left without a response: a call has returned its one
\* result (200, or an HTTP-shaped rejection), or its handler can still take a
\* step; this holds too after a 2xx upstream answer whose body is not JSON.
C12_EveryCallAnswered ==
    \A c \in Calls :
        \/ Returned(c) /\ result[c] # None /\ result[c].statusCode \in {200, 401, 402}
        \/ ENABLED CallStep(c)

\* The external operations of a call that succeeds, in the order of the stages.
Canonical ==
    <<Op("getTokenInfo"), Ok("getTokenInfo"), Op("get"), Ok("get"),
      Op("request"), Ok("request"), Op("put"), Ok("put"),
      Op("update"), Ok("update")>>

\* s is what a call has done so far: a stage was started only after every
\* earlier one ended well, each at most once, and nothing follows a failure.
InStageOrder(s) ==
    /\ Len(s) <= Len(Canonical)
    /\ \A i \in DOMAIN s :
          \/ s[i] = Canonical[i]
          \/ /\ i = Len(s)
             /\ i > 1
             /\ s[i - 1] = Canonical[i - 1]
             /\ s[i - 1].end = "issued"
             /\ s[i] = Err(s[i - 1].op)

\* The place of a call in the pipeline.
Rank(p) ==
    CASE p = "idle"              -> 0
      [] p = "getTokenInfo"      -> 1
      [] p = "getDBUser"         -> 2
      [] p = "makeOpenAIRequest" -> 3
      [] p = "logTransaction"    -> 4
      [] p = "deductUserBalance" -> 5
      [] p = "done"              -> 6
      [] p = "crashed"           -> 6

\* The operation a call waits for at each place.
Awaited(p) ==
    CASE p = "getTokenInfo"      -> "getTokenInfo"
      [] p = "getDBUser"         -> "get"
      [] p = "makeOpenAIRequest" -> "request"
      [] p = "logTransaction"    -> "put"
      [] p = "deductUserBalance" -> "update"
      [] OTHER                   -> "none"

StagesInOrder ==
    \A c \in Calls :
        /\ InStageOrder(ops[c])
        /\ Awaited(pc[c]) # "none" =>
              /\ ops[c] # << >>
              /\ ops[c][Len(ops[c])] = Op(Awaited(pc[c]))
        /\ Succeeded(c) => ops[c] = Canonical

\* C13: within a call the stages run in the order identity verification,
\* balance read, upstream invocation, log write, ledger deduction, response; a
\* stage starts only after the one before it ended well, no stage runs twice,
\* and the call never goes back to a place it has left.
C13_StrictStageOrder ==
    [][ /\ StagesInOrder'
        /\ \A c \in Calls : pc'[c] # pc[c] => Rank(pc'[c]) > Rank(pc[c]) ]_vars

C13_Witness ==
    \E c \in Calls : Succeeded(c) /\ ops[c] = Canonical

\* C14: a call whose upstream exchange ended with a transport error or with a
\* status outside 2xx returns the 401 of the catch block, and no transaction
\* record is written and no deduction attempted for it.
C14_UpstreamFailureRejected ==
    \A c \in Calls :
        upstreamOutcome[c] \in {"transport-error", "non-2xx"} =>
            /\ Returned(c)
            /\ result[c].statusCode = 401
            /\ JSONparse(result[c].body).message = "Token is invalid"
            /\ ~Has(c, Op("put"))
            /\ ~Has(c, Op("update"))
            /\ transactionID[c] = None
            /\ transactionPrice[c] = None

C14_Witness ==
    /\ \E c \in Calls :
          /\ upstreamOutcome[c] = "non-2xx"
          /\ result[c].statusCode = 401
    /\ \E c \in Calls :
          /\ upstreamOutcome[c] = "transport-error"
          /\ result[c].statusCode = 401

\* The log write of call c has settled.
LogSettled(c) == Has(c, Ok("put")) \/ Has(c, Err("put"))

\* C15, as claimed: once the upstream has answered well the deduction is
\* performed whether the log write succeeded or failed.
C15_BilledWhateverTheLog ==
    \A c \in Calls :
        (Has(c, Ok("request")) /\ LogSettled(c)) => Has(c, Op("update"))

\* C15, amended: once the upstream has answered well the deduction is performed
\* if and only if the log write succeeded, with no other condition; a failed log
\* write ends the call with the 401 of the catch block, and nothing is computed
\* or deducted for it.
C15_BilledOnlyAfterLog ==
    \A c \in Calls :
        (Has(c, Ok("request")) /\ LogSettled(c)) =>
            /\ Has(c, Ok("put")) => Has(c, Op("update"))
            /\ Has(c, Err("put")) =>
                  /\ ~Has(c, Op("update"))
                  /\ Returned(c)
                  /\ result[c].statusCode = 401
                  /\ transactionPrice[c] = None
                  /\ newBalance[c] = None

C15_Witness ==
    \E c \in Calls :
        /\ Has(c, Ok("request"))
        /\ Has(c, Err("put"))
        /\ Returned(c)
        /\ result[c].statusCode = 401
        /\ accounts = accounts0

\* The deduction of call c failed after its upstream call and its log write
\* had succeeded.
FailedDeduct(c) ==
    /\ Has(c, Ok("request"))
    /\ Has(c, Ok("put"))
    /\ Has(c, Err("update"))

\* What holds of a call whose deduction failed, from then on.
AfterFailedDeduct(c) ==
    /\ Returned(c)
    /\ result[c].statusCode = 401
    /\ Count(c, Op("update")) = 1
    /\ Count(c, Op("put")) = 1
    /\ transactionID[c] \in DOMAIN transactions
    /\ c \notin Deducted(idToken[c].email)
    /\ newBalance[c] = None

\* C16: when the deduction fails after a successful upstream call and log
\* write, the failing step leaves the transaction log and every balance as they
\* were, the deduction was attempted once and is not attempted again, and the
\* call has ended with a failure result, not 200.
C16_FailedDeductNotRolledBack ==
    [][ \A c \in Calls :
          FailedDeduct(c)' =>
              /\ AfterFailedDeduct(c)'
              /\ pc[c] = "deductUserBalance" =>
                    /\ transactions' = transactions
                    /\ accounts' = accounts
              /\ pc[c] = "done" =>
                    /\ ops'[c] = ops[c]
                    /\ result'[c] = result[c] ]_vars

C16_Witness ==
    \E c \in Calls :
        /\ FailedDeduct(c)
        /\ transactionPrice[c].k = "num"
        /\ transactions[transactionID[c]].UserID = idToken[c].email
        /\ accounts = accounts0
        /\ result[c].statusCode = 401

\* The item call c put in the log.
LoggedItem(c) == TransactionItem(c, response[c], transactionID[c])

\* C17: the log is append-only: it holds as many records as there were
\* successful log writes, and the record of every call that logged is in it
\* under the call's identifier, as that call wrote it.
C17_LogAppendOnly ==
    /\ Cardinality(DOMAIN transactions) =
          Cardinality({c \in Calls : Has(c, Ok("put"))})
    /\ \A c \in Calls :
          Has(c, Ok("put")) =>
              /\ transactionID[c] \in DOMAIN transactions
              /\ transactions[transactionID[c]] = LoggedItem(c)

\* The step that applies the deduction of call c.
DeductApplied(c) == DeductDone(c) /\ Has(c, Ok("update"))'

\* C18: the deduction does not look at the balance again: a call admitted on a
\* balance of 0 or more can always have its full price deducted, whatever the
\* balance has become, the new balance is the old one minus the price, below 0
\* or not, and a call that then reads the negative balance is refused with 402.
C18_DeductNeverRevalidates ==
    [][ \A c \in Calls :
          /\ (pc[c] = "deductUserBalance" /\ transactionPrice[c].k = "num") =>
                ENABLED DeductApplied(c)
          /\ (pc[c] = "deductUserBalance" /\ Has(c, Ok("update"))') =>
                /\ dbUser[c].Balance >= 0
                /\ accounts'[idToken[c].email].Balance =
                      accounts[idToken[c].email].Balance - transactionPrice[c].v
                /\ newBalance'[c] = Num(accounts'[idToken[c].email].Balance)
          /\ (dbUser'[c].k = "item" /\ dbUser'[c].Balance < 0) =>
                result'[c].statusCode = 402 ]_vars

C18_Witness ==
    \E c1, c2 \in Calls :
        /\ c1 # c2
        /\ idToken[c1] = idToken[c2]
        /\ Has(c1, Ok("update"))
        /\ Has(c2, Ok("update"))
        /\ newBalance[c1].v < 0
        /\ newBalance[c2].v = newBalance[c1].v - transactionPrice[c2].v

\* C19: a step of a call for subject S creates and deletes no account, changes
\* no balance but that of S, leaves every record of the log as it was and adds
\* at most the call's own record; a call rejected before the upstream stage
\* changes neither table.
C19_FrameOfACall ==
    [][ \A c \in Calls :
          pc'[c] # pc[c] =>
              /\ DOMAIN accounts' = DOMAIN accounts
              /\ \A s \in DOMAIN accounts :
                    accounts'[s] # accounts[s] =>
                        (idToken[c] # None /\ s = idToken[c].email)
              /\ \A id \in DOMAIN transactions :
                    /\ id \in DOMAIN transactions'
                    /\ transactions'[id] = transactions[id]
              /\ \A id \in DOMAIN transactions' \ DOMAIN transactions :
                    /\ id = transactionID[c]
                    /\ transactions'[id] = LoggedItem(c)
              /\ (Rank(pc[c]) <= 2 /\ pc'[c] = "done") =>
                    /\ accounts' = accounts
                    /\ transactions' = transactions ]_vars

\* C20: no step raises a balance, every applied deduction is of the fixed
\* surcharge at least, and it lowers the balance of its subject.
C20_BalancesOnlyDecrease ==
    [][ /\ \A s \in DOMAIN accounts :
              /\ s \in DOMAIN accounts'
              /\ accounts'[s].Balance <= accounts[s].Balance
        /\ \A c \in Calls :
              (pc[c] = "deductUserBalance" /\ Has(c, Ok("update"))') =>
                  /\ transactionPrice[c].v >= Surcharge
                  /\ Surcharge > 0
                  /\ accounts'[idToken[c].email].Balance
                        < accounts[idToken[c].email].Balance ]_vars

C20_Witness ==
    \E c \in Calls :
        /\ Has(c, Ok("update"))
        /\ transactionPrice[c] = Num(Surcharge)
        /\ accounts[idToken[c].email].Balance
              = accounts0[idToken[c].email].Balance - Surcharge

====
